---- MODULE Spec2Model ----
(***************************************************************************)
(* Model of .github/scripts/notice_prs.py: the pull-request review         *)
(* notifier.  main() loads the configuration, then for every configured    *)
(* repository lists its pull requests, filters them by label and draft     *)
(* flag, fetches the reviews of every retained pull request, and posts one *)
(* summary to a Slack webhook.                                             *)
(*                                                                         *)
(* Every HTTP call is a step of its own, so that the outcome of the call   *)
(* (a response, an HTTP error status, a connection error) is an input of   *)
(* the step.  Python values are encoded as strings: "" is the empty        *)
(* string, "None"/"True"/"False" are None/True/False.  Python strings that *)
(* the program builds (the Slack message) are sequences of tokens, the     *)
(* Japanese literals of the source being written in ASCII.                 *)
(***************************************************************************)
EXTENDS Integers, Sequences, FiniteSets, TLC

VARIABLES
    config_file,                \* the content of CONFIG_FILE_PATH
    pc,                         \* position of main()
    configs,                    \* main: configs
    idx,                        \* main: index of `config` in configs
    listing_json,               \* get_pull_request_list: response.json(), while the
                                \* function runs and in the exception it raises
    pull_request_list,          \* main: pull_request_list
    filtered_pull_request_list, \* main: filtered_pull_request_list
    rev_idx,                    \* get_review_result: index of pull_request
    waiting_prs,                \* get_review_result: waiting_prs
    complete_prs,               \* get_review_result: complete_prs
    message,                    \* send_slack_notification: message (POST in flight)
    fetch_count,                \* per repository: GETs of its pulls collection
    review_count,               \* per pull request of the current listing: GETs of its reviews
    post_count,                 \* per repository: POSTs to its webhook
    post_status,                \* per repository: "none", or its POST "ok" or "failed"
    listed,                     \* per repository: "no", or what its listing GET gave:
                                \* "failed", "empty", "unusable", "nonempty"
    errors,                     \* what logging.error was called with
    response_json,              \* get_approve_count: response_json
    approve_count               \* get_approve_count: the value returned

vars == <<config_file, pc, configs, idx, listing_json, pull_request_list,
          filtered_pull_request_list, rev_idx, waiting_prs, complete_prs,
          message, fetch_count, listed, review_count, post_count, post_status,
          errors, response_json, approve_count>>

(***************************************************************************)
(* Bounds of the model.                                                    *)
(***************************************************************************)
MaxRepos == 2       \* entries of the configuration file
MaxPRs == 2         \* pull requests of one listing
MaxReviews == 2     \* review events of one pull request

(***************************************************************************)
(* Program constants.                                                      *)
(***************************************************************************)
REVIEW_COMPLETE_LIMIT == 1

(***************************************************************************)
(* Python values.                                                          *)
(***************************************************************************)
PyNone == "None"
PyTrue == "True"
PyFalse == "False"

\* `not v` for a scalar v
Falsy(v) == v \in {"", PyNone, PyFalse}

\* dict.get(key, default)
Get(obj, key, default) == IF key \in DOMAIN obj THEN obj[key] ELSE default

\* an exception-or-value result
Raise(exc) == [raised |-> exc, value |-> <<>>]
Return(v) == [raised |-> "", value |-> v]

\* str(n) for the small counts of the model
IntStr(n) == <<"0", "1", "2", "3", "4", "5", "6">>[n + 1]

\* the sequences over S of length at most n
RECURSIVE SeqsUpTo(_, _)
SeqsUpTo(S, n) ==
    IF n = 0 THEN {<<>>}
    ELSE LET shorter == SeqsUpTo(S, n - 1)
         IN  shorter \cup {Append(s, x) : s \in {t \in shorter : Len(t) = n - 1}, x \in S}

(***************************************************************************)
(* class Config                                                            *)
(***************************************************************************)
Config(owner_name, repo_name, target_label, webhook_url) ==
    IF Falsy(owner_name) THEN Raise("ValueError")
    ELSE IF Falsy(repo_name) THEN Raise("ValueError")
    ELSE IF Falsy(target_label) THEN Raise("ValueError")
    ELSE IF Falsy(webhook_url) THEN Raise("ValueError")
    ELSE Return([owner_name |-> owner_name, repo_name |-> repo_name,
                 target_label |-> target_label, webhook_url |-> webhook_url])

\* os.getenv: the process environment holds one webhook secret
getenv(name) ==
    IF name = "SLACK_WEBHOOK_URL" THEN "https://hooks.slack.example/T1" ELSE PyNone

\* load_configs as a lazy loader: the entries before the first bad one are
\* handed to main
RECURSIVE ConfigComprehensionLazy(_, _)
ConfigComprehensionLazy(config_json_list, acc) ==
    IF config_json_list = <<>> THEN Return(acc)
    ELSE LET config_json == Head(config_json_list)
             c == Config(Get(config_json, "owner_name", ""),
                         Get(config_json, "repo_name", ""),
                         Get(config_json, "target_label", ""),
                         getenv(Get(config_json, "webhook_secret_name", "")))
         IN  IF c.raised # "" THEN Return(acc)
             ELSE ConfigComprehensionLazy(Tail(config_json_list), Append(acc, c.value))

\* the list comprehension of load_configs: Config objects are built in order,
\* the first constructor that raises ends the comprehension
RECURSIVE ConfigComprehension(_, _)
ConfigComprehension(config_json_list, acc) ==
    IF config_json_list = <<>> THEN Return(acc)
    ELSE LET config_json == Head(config_json_list)
             c == Config(Get(config_json, "owner_name", ""),
                         Get(config_json, "repo_name", ""),
                         Get(config_json, "target_label", ""),
                         getenv(Get(config_json, "webhook_secret_name", "")))
         IN  IF c.raised # "" THEN Raise(c.raised)
             ELSE ConfigComprehension(Tail(config_json_list), Append(acc, c.value))

load_configs(file) ==
    IF ~file.exists THEN Raise("FileNotFoundError")
    ELSE IF ~file.json_ok THEN Raise("ValueError")      \* json.JSONDecodeError
    ELSE IF ~file.is_list THEN Raise("ValueError")      \* TypeError
    ELSE ConfigComprehension(file.entries, <<>>)

(***************************************************************************)
(* class PullRequest                                                       *)
(***************************************************************************)
\* PullRequest without the label_names validation
PullRequestAnyLabels(url, html_url, isDraft, label_names) ==
    IF Falsy(url) THEN Raise("ValueError")
    ELSE IF Falsy(html_url) THEN Raise("ValueError")
    ELSE IF isDraft = PyNone THEN Raise("ValueError")
    ELSE Return([url |-> url, html_url |-> html_url, isDraft |-> isDraft,
                 label_names |-> label_names])

PullRequest(url, html_url, isDraft, label_names) ==
    IF Falsy(url) THEN Raise("ValueError")
    ELSE IF Falsy(html_url) THEN Raise("ValueError")
    ELSE IF isDraft = PyNone THEN Raise("ValueError")
    ELSE IF label_names = <<>> THEN Raise("ValueError")
    ELSE Return([url |-> url, html_url |-> html_url, isDraft |-> isDraft,
                 label_names |-> label_names])

(***************************************************************************)
(* class ReviewResult                                                      *)
(***************************************************************************)
ReviewResult(pull_request_url, count) ==
    IF Falsy(pull_request_url) THEN Raise("ValueError")
    ELSE IF count < 0 THEN Raise("ValueError")
    ELSE Return([pull_request_url |-> pull_request_url, approve_count |-> count])

\* [label.get("name", "") for label in response_json.get("labels", [])]
LabelNames(labels) == [k \in 1..Len(labels) |-> Get(labels[k], "name", "")]

\* the list comprehension of get_pull_request_list
RECURSIVE PullRequestComprehension(_, _)
PullRequestComprehension(json, acc) ==
    IF json = <<>> THEN Return(acc)
    ELSE LET response_pr == Head(json)
             p == PullRequest(Get(response_pr, "url", ""),
                              Get(response_pr, "html_url", ""),
                              Get(response_pr, "draft", PyFalse),
                              LabelNames(Get(response_pr, "labels", <<>>)))
         IN  IF p.raised # "" THEN Raise(p.raised)
             ELSE PullRequestComprehension(Tail(json), Append(acc, p.value))

\* get_pull_request_list, given what requests.get produced
get_pull_request_list(response) ==
    IF response.kind = "ConnectionError" THEN Raise("RequestException")
    ELSE IF response.status >= 400 THEN Raise("RequestException")  \* raise_for_status
    ELSE PullRequestComprehension(response.json, <<>>)

(***************************************************************************)
(* filter_pull_request                                                     *)
(***************************************************************************)
LabelIn(label, label_names) == \E k \in 1..Len(label_names) : label_names[k] = label

\* filter_pull_request with the draft test lost
RECURSIVE filter_by_label_only(_, _)
filter_by_label_only(prs, label) ==
    IF prs = <<>> THEN <<>>
    ELSE IF LabelIn(label, Head(prs).label_names)
         THEN <<Head(prs)>> \o filter_by_label_only(Tail(prs), label)
         ELSE filter_by_label_only(Tail(prs), label)

RECURSIVE filter_pull_request(_, _)
filter_pull_request(prs, label) ==
    IF prs = <<>> THEN <<>>
    ELSE LET pull_request == Head(prs)
             rest == filter_pull_request(Tail(prs), label)
         IN  IF LabelIn(label, pull_request.label_names) /\ ~(pull_request.isDraft = PyTrue)
             THEN <<pull_request>> \o rest
             ELSE rest

(***************************************************************************)
(* get_approve_count                                                       *)
(***************************************************************************)
\* dict[key] = value
Put(dict, key, value) ==
    [k \in DOMAIN dict \cup {key} |-> IF k = key THEN value ELSE dict[k]]

\* the comprehension without the deduplication: every APPROVED review counts
RECURSIVE ApprovedReviewsNoDedup(_, _)
ApprovedReviewsNoDedup(reviews, dict) ==
    IF reviews = <<>> THEN dict
    ELSE ApprovedReviewsNoDedup(Tail(reviews),
                                IF Head(reviews).state = "APPROVED"
                                THEN Append(dict, Head(reviews))
                                ELSE dict)

\* the dict comprehension of lines 158-161: the reviews are visited in order,
\* an APPROVED one is stored under its user id
RECURSIVE ApprovedReviews(_, _)
ApprovedReviews(reviews, dict) ==
    IF reviews = <<>> THEN dict
    ELSE LET review == Head(reviews)
         IN  ApprovedReviews(Tail(reviews),
                             IF review.state = "APPROVED"
                             THEN Put(dict, review.user_id, review)
                             ELSE dict)

get_approve_count(response) ==
    IF response.kind = "ConnectionError" THEN Raise("RequestException")
    ELSE IF response.status >= 400 THEN Raise("RequestException")
    ELSE Return(Cardinality(DOMAIN ApprovedReviews(response.json, <<>>)))

\* line 142 with <= for <
IsWaitingOffByOne(count) == count <= REVIEW_COMPLETE_LIMIT

\* line 142: the pull request goes to waiting_prs
IsWaiting(count) == count < REVIEW_COMPLETE_LIMIT

(***************************************************************************)
(* format_notification_message and the message of send_slack_notification  *)
(* A str is a sequence of tokens; "".join and f-strings concatenate.       *)
(***************************************************************************)
Nashi == "nashi"    \* the placeholder literal of line 172 ("none")

ResultLine(review_result) ==
    <<"- <", review_result.pull_request_url, "> ( review kanryou: ",
      IntStr(review_result.approve_count), "nin )">>

RECURSIVE JoinLines(_)
JoinLines(review_results) ==
    IF Len(review_results) = 1 THEN ResultLine(review_results[1])
    ELSE ResultLine(Head(review_results)) \o <<"\n">> \o JoinLines(Tail(review_results))

\* format_notification_message without the line-171 test: "\n".join of nothing
format_notification_message_join_only(review_results) ==
    IF review_results = <<>> THEN <<>>
    ELSE JoinLines(review_results)

format_notification_message(review_results) ==
    IF review_results = <<>> THEN <<Nashi>>
    ELSE JoinLines(review_results)

WaitingHeader == "*review machi PR ( "
CompleteHeader == "*review kanryou PR ( "
SectionGap == "\n\n\n"

BuildMessage(waiting, complete, label) ==
    <<":page_facing_up: [", label, "] pull request review joukyou\n\n",
      "------------------------\n",
      WaitingHeader, IntStr(Len(waiting)), " ken )*\n">>
    \o format_notification_message(waiting)
    \o <<SectionGap, CompleteHeader, IntStr(Len(complete)), " ken )*\n">>
    \o format_notification_message(complete)

(***************************************************************************)
(* The inputs: configuration files, API responses.                         *)
(***************************************************************************)
Labels == {"needs-review", "bug"}

GoodEntry(label) ==
    [owner_name |-> "octo", repo_name |-> "tools", target_label |-> label,
     webhook_secret_name |-> "SLACK_WEBHOOK_URL"]

Without(obj, key) == [k \in DOMAIN obj \ {key} |-> obj[k]]

BadEntries ==
    LET e == GoodEntry("needs-review")
    IN  {[e EXCEPT !.owner_name = ""], Without(e, "repo_name"),
         [e EXCEPT !.target_label = ""], Without(e, "webhook_secret_name"),
         [e EXCEPT !.webhook_secret_name = "UNSET_SECRET"]}

RawEntries == {GoodEntry(l) : l \in Labels} \cup BadEntries

ConfigFiles ==
    {[exists |-> FALSE, json_ok |-> FALSE, is_list |-> FALSE, entries |-> <<>>],
     [exists |-> TRUE, json_ok |-> FALSE, is_list |-> FALSE, entries |-> <<>>],
     [exists |-> TRUE, json_ok |-> TRUE, is_list |-> FALSE, entries |-> <<>>]}
    \cup {[exists |-> TRUE, json_ok |-> TRUE, is_list |-> TRUE, entries |-> es] :
            es \in SeqsUpTo(RawEntries, MaxRepos)}

ApiUrl(k) == <<"api/pulls/1", "api/pulls/2", "api/pulls/3", "api/pulls/4">>[k]
HtmlUrl(k) == <<"html/pull/1", "html/pull/2", "html/pull/3", "html/pull/4">>[k]

LabelObj(name) == [name |-> name]

\* the pull-request objects the listing API may return at position k
RawPRsAt(k) ==
    LET pr(draft, labels) ==
            [url |-> ApiUrl(k), html_url |-> HtmlUrl(k), draft |-> draft,
             labels |-> labels]
        ready == pr(PyFalse, <<LabelObj("needs-review")>>)
    IN  {ready,
         pr(PyTrue, <<LabelObj("needs-review")>>),
         pr(PyFalse, <<LabelObj("bug")>>),
         pr(PyFalse, <<LabelObj("bug"), LabelObj("needs-review")>>),
         Without(ready, "draft"),
         pr(PyFalse, <<>>),
         [ready EXCEPT !.url = ""],
         Without(ready, "html_url"),
         [ready EXCEPT !.draft = PyNone]}

RECURSIVE Listings(_)
Listings(n) ==
    IF n = 0 THEN {<<>>}
    ELSE LET shorter == Listings(n - 1)
         IN  shorter \cup {Append(l, p) : l \in {t \in shorter : Len(t) = n - 1},
                                          p \in RawPRsAt(n)}

HttpResponse(status, json) == [kind |-> "HTTP", status |-> status, json |-> json]
FailedResponses == {[kind |-> "ConnectionError", status |-> 0, json |-> <<>>],
                    HttpResponse(500, <<>>)}

ListingResponses == FailedResponses \cup {HttpResponse(200, l) : l \in Listings(MaxPRs)}

Reviewers == {101, 102}
ReviewStates == {"APPROVED", "CHANGES_REQUESTED"}
ReviewEvents == [user_id : Reviewers, state : ReviewStates]

ReviewResponses ==
    FailedResponses \cup {HttpResponse(200, r) : r \in SeqsUpTo(ReviewEvents, MaxReviews)}

WebhookOutcomes == {"200", "500", "ConnectionError"}

\* requests.post and raise_for_status: anything but a 2xx answer is a
\* RequestException
PostStatus(outcome) == IF outcome = "200" THEN "ok" ELSE "failed"

\* the inputs get_approve_count is exercised on by itself
ApproveInputs ==
    SeqsUpTo([user_id : {101, 102, 103},
              state : {"APPROVED", "CHANGES_REQUESTED", "COMMENTED"}], MaxReviews)

(***************************************************************************)
(* main                                                                    *)
(***************************************************************************)
Repos == 1..MaxRepos

\* a pull-request object of the listing with no label, no API url or no
\* browsable url
Unusable(response_pr) ==
    \/ Get(response_pr, "labels", <<>>) = <<>>
    \/ Get(response_pr, "url", "") = ""
    \/ Get(response_pr, "html_url", "") = ""

\* what the listing GET gave: no response, an empty list, a list holding an
\* unusable object, another list
ListingKind(response) ==
    IF response.kind = "ConnectionError" \/ response.status >= 400 THEN "failed"
    ELSE IF response.json = <<>> THEN "empty"
    ELSE IF \E k \in 1..Len(response.json) : Unusable(response.json[k]) THEN "unusable"
    ELSE "nonempty"

LogError(src, repo) == [src |-> src, repo |-> repo]

Aborted == \E k \in 1..Len(errors) : errors[k].src = "main"

Init ==
    /\ config_file \in ConfigFiles
    /\ pc = "load"
    /\ configs = <<>>
    /\ idx = 0
    /\ listing_json = <<>>
    /\ pull_request_list = <<>>
    /\ filtered_pull_request_list = <<>>
    /\ rev_idx = 0
    /\ waiting_prs = <<>>
    /\ complete_prs = <<>>
    /\ message = <<>>
    /\ fetch_count = [i \in Repos |-> 0]
    /\ listed = [i \in Repos |-> "no"]
    /\ review_count = [k \in 1..MaxPRs |-> 0]
    /\ post_count = [i \in Repos |-> 0]
    /\ post_status = [i \in Repos |-> "none"]
    /\ errors = <<>>
    /\ response_json = <<>>
    /\ approve_count = 0

\* line 196: configs = load_configs(); an exception ends main (line 213)
LoadConfigs ==
    /\ pc = "load"
    /\ LET r == load_configs(config_file)
       IN  IF r.raised # ""
           THEN /\ errors' = Append(errors, LogError("main", 0))
                /\ pc' = "done"
                /\ UNCHANGED <<configs, idx>>
           ELSE /\ configs' = r.value
                /\ idx' = IF r.value = <<>> THEN 0 ELSE 1
                /\ pc' = IF r.value = <<>> THEN "done" ELSE "fetch"
                /\ UNCHANGED errors
    /\ UNCHANGED <<config_file, listing_json, pull_request_list,
                   filtered_pull_request_list, rev_idx, waiting_prs, complete_prs, message, fetch_count,
                   listed, review_count, post_count, post_status,
                   response_json, approve_count>>

\* the for loop of main moves to the next config, or main returns
NextConfig ==
    /\ idx' = IF idx < Len(configs) THEN idx + 1 ELSE idx
    /\ pc' = IF idx < Len(configs) THEN "fetch" ELSE "done"
    /\ pull_request_list' = <<>>
    /\ filtered_pull_request_list' = <<>>
    /\ rev_idx' = 0
    /\ waiting_prs' = <<>>
    /\ complete_prs' = <<>>
    /\ message' = <<>>
    /\ review_count' = [k \in 1..MaxPRs |-> 0]

\* send_slack_notification posting twice
SendSlackNotificationTwice(waiting, complete) ==
    /\ message' = BuildMessage(waiting, complete, configs[idx].target_label)
    /\ post_count' = [post_count EXCEPT ![idx] = @ + 2]
    /\ pc' = "post"

\* send_slack_notification up to requests.post: the message is built and the
\* POST is issued
SendSlackNotification(waiting, complete) ==
    /\ message' = BuildMessage(waiting, complete, configs[idx].target_label)
    /\ post_count' = [post_count EXCEPT ![idx] = @ + 1]
    /\ pc' = "post"

\* an exception that leaves main's loop: logged at line 214, main returns
AbortMain(logged) ==
    /\ errors' = errors \o logged \o <<LogError("main", idx)>>
    /\ pc' = "done"

\* lines 198-204 for one config: the listing GET, the filter, and, when the
\* filtered list is empty, get_review_result's empty loop and the POST
GetPullRequestList ==
    /\ pc = "fetch"
    /\ \E response \in ListingResponses :
         LET r == get_pull_request_list(response)
             filtered == filter_pull_request(r.value, configs[idx].target_label)
         IN  /\ fetch_count' = [fetch_count EXCEPT ![idx] = @ + 1]
             /\ listed' = [listed EXCEPT ![idx] = ListingKind(response)]
             /\ listing_json' = IF r.raised # "" THEN response.json ELSE <<>>
             /\ IF r.raised = "RequestException"
                THEN /\ AbortMain(<<LogError("get_pull_request_list", idx)>>)
                     /\ UNCHANGED <<idx, pull_request_list, filtered_pull_request_list,
                                    rev_idx, waiting_prs, complete_prs, message,
                                    review_count, post_count>>
                ELSE IF r.raised # ""
                THEN /\ AbortMain(<<>>)
                     /\ UNCHANGED <<idx, pull_request_list, filtered_pull_request_list,
                                    rev_idx, waiting_prs, complete_prs, message,
                                    review_count, post_count>>
                ELSE IF r.value = <<>>
                THEN /\ NextConfig
                     /\ UNCHANGED <<post_count, errors>>
                ELSE /\ pull_request_list' = r.value
                     /\ filtered_pull_request_list' = filtered
                     /\ waiting_prs' = <<>>
                     /\ complete_prs' = <<>>
                     /\ review_count' = [k \in 1..MaxPRs |-> 0]
                     /\ IF filtered = <<>>
                        THEN /\ SendSlackNotification(<<>>, <<>>)
                             /\ rev_idx' = 0
                        ELSE /\ pc' = "review"
                             /\ rev_idx' = 1
                             /\ UNCHANGED <<message, post_count>>
                     /\ UNCHANGED <<idx, errors>>
    /\ UNCHANGED <<config_file, configs, post_status, response_json, approve_count>>

\* the position in pull_request_list of the pull request with this API url
PosOf(url) == CHOOSE k \in 1..Len(pull_request_list) : pull_request_list[k].url = url

\* one iteration of get_review_result's loop: the reviews GET of
\* get_approve_count and the classification; after the last iteration
\* get_review_result returns and send_slack_notification issues the POST
GetApproveCount ==
    /\ pc = "review"
    /\ \E response \in ReviewResponses :
         LET pull_request == filtered_pull_request_list[rev_idx]
             r == get_approve_count(response)
             review_result == ReviewResult(pull_request.html_url, r.value)
             waiting == IF IsWaiting(r.value)
                        THEN Append(waiting_prs, review_result.value)
                        ELSE waiting_prs
             complete == IF IsWaiting(r.value)
                         THEN complete_prs
                         ELSE Append(complete_prs, review_result.value)
         IN  /\ review_count' = [review_count EXCEPT ![PosOf(pull_request.url)] = @ + 1]
             /\ IF r.raised # ""
                THEN /\ AbortMain(<<LogError("get_approve_count", idx)>>)
                     /\ UNCHANGED <<rev_idx, waiting_prs, complete_prs, message,
                                    post_count>>
                ELSE IF review_result.raised # ""
                THEN /\ AbortMain(<<>>)
                     /\ UNCHANGED <<rev_idx, waiting_prs, complete_prs, message,
                                    post_count>>
                ELSE /\ waiting_prs' = waiting
                     /\ complete_prs' = complete
                     /\ IF rev_idx < Len(filtered_pull_request_list)
                        THEN /\ rev_idx' = rev_idx + 1
                             /\ pc' = "review"
                             /\ UNCHANGED <<message, post_count>>
                        ELSE /\ rev_idx' = rev_idx
                             /\ SendSlackNotification(waiting, complete)
                     /\ UNCHANGED errors
    /\ UNCHANGED <<config_file, configs, idx, listing_json, pull_request_list,
                   filtered_pull_request_list, fetch_count, listed, post_status,
                   response_json, approve_count>>

\* send_slack_notification letting the RequestException out
SendSlackResponseRaises ==
    /\ pc = "post"
    /\ \E outcome \in WebhookOutcomes :
         /\ post_status' = [post_status EXCEPT ![idx] = PostStatus(outcome)]
         /\ IF PostStatus(outcome) = "ok"
            THEN /\ NextConfig
                 /\ UNCHANGED errors
            ELSE /\ AbortMain(<<LogError("send_slack_notification", idx)>>)
                 /\ UNCHANGED <<idx, pull_request_list,
                                filtered_pull_request_list, rev_idx, waiting_prs,
                                complete_prs, message, review_count>>
    /\ UNCHANGED <<config_file, configs, listing_json, fetch_count, listed,
                   post_count, response_json, approve_count>>

\* lines 188-191: the outcome of the POST; a RequestException is logged and
\* swallowed, and main's loop goes on
SendSlackResponse ==
    /\ pc = "post"
    /\ \E outcome \in WebhookOutcomes :
         /\ post_status' = [post_status EXCEPT ![idx] = PostStatus(outcome)]
         /\ errors' = IF PostStatus(outcome) = "ok" THEN errors
                      ELSE Append(errors, LogError("send_slack_notification", idx))
    /\ NextConfig
    /\ UNCHANGED <<config_file, configs, listing_json, fetch_count, listed,
                   post_count, response_json, approve_count>>

Next ==
    \/ LoadConfigs
    \/ GetPullRequestList
    \/ GetApproveCount
    \/ SendSlackResponse

Spec == Init /\ [][Next]_vars

(***************************************************************************)
(* get_approve_count by itself: a successful reviews response is drawn,    *)
(* the function is called on it.                                           *)
(***************************************************************************)
InitApprove ==
    /\ config_file = [exists |-> FALSE, json_ok |-> FALSE, is_list |-> FALSE,
                      entries |-> <<>>]
    /\ pc = "approve_call"
    /\ configs = <<>>
    /\ idx = 0
    /\ listing_json = <<>>
    /\ pull_request_list = <<>>
    /\ filtered_pull_request_list = <<>>
    /\ rev_idx = 0
    /\ waiting_prs = <<>>
    /\ complete_prs = <<>>
    /\ message = <<>>
    /\ fetch_count = [i \in Repos |-> 0]
    /\ listed = [i \in Repos |-> "no"]
    /\ review_count = [k \in 1..MaxPRs |-> 0]
    /\ post_count = [i \in Repos |-> 0]
    /\ post_status = [i \in Repos |-> "none"]
    /\ errors = <<>>
    /\ response_json \in ApproveInputs
    /\ approve_count = 0

ApproveCall ==
    /\ pc = "approve_call"
    /\ approve_count' = get_approve_count(HttpResponse(200, response_json)).value
    /\ pc' = "approve_ret"
    /\ UNCHANGED <<config_file, configs, idx, listing_json, pull_request_list,
                   filtered_pull_request_list, rev_idx, waiting_prs, complete_prs,
                   message, fetch_count, listed, review_count, post_count,
                   post_status, errors, response_json>>

NextApprove == ApproveCall

SpecApprove == InitApprove /\ [][NextApprove]_vars

(***************************************************************************)
(* The claims.                                                             *)
(***************************************************************************)
Logged(src, repo) == \E k \in 1..Len(errors) : errors[k] = LogError(src, repo)

LabelSet(pull_request) ==
    {pull_request.label_names[n] : n \in 1..Len(pull_request.label_names)}

\* the positions of pull_request_list the claim C1 says are retained
Kept ==
    {k \in 1..Len(pull_request_list) :
        /\ configs[idx].target_label \in LabelSet(pull_request_list[k])
        /\ pull_request_list[k].isDraft = PyFalse}

\* C1: filter_pull_request returns a pull request of the listing if and only
\* if the target label is one of its label names and it is not a draft;
\* nothing else is added, nothing is duplicated, the order is kept.
C1_FilterIffLabelAndNotDraft ==
    IF pull_request_list = <<>> THEN filtered_pull_request_list = <<>>
    ELSE /\ \A k \in 1..Len(pull_request_list) :
              k \in Kept <=>
                 \E m \in 1..Len(filtered_pull_request_list) :
                    filtered_pull_request_list[m] = pull_request_list[k]
         /\ \A m \in 1..Len(filtered_pull_request_list) :
              \E k \in Kept : filtered_pull_request_list[m] = pull_request_list[k]
         /\ Len(filtered_pull_request_list) = Cardinality(Kept)
         /\ \A m1, m2 \in 1..Len(filtered_pull_request_list) :
              m1 < m2 => PosOf(filtered_pull_request_list[m1].url)
                           < PosOf(filtered_pull_request_list[m2].url)

\* a listing with a retained pull request, a labelled draft and a pull request
\* without the label
C1_Witness ==
    /\ Len(filtered_pull_request_list) >= 1
    /\ \E k \in 1..Len(pull_request_list) :
         /\ pull_request_list[k].isDraft = PyTrue
         /\ configs[idx].target_label \in LabelSet(pull_request_list[k])

Occurrences(results, html_url) ==
    Cardinality({m \in 1..Len(results) : results[m].pull_request_url = html_url})

\* C2: when get_review_result has returned, every pull request of the filtered
\* list is in exactly one of WAITING and COMPLETE, nothing else is, WAITING
\* holds exactly the approval counts below REVIEW_COMPLETE_LIMIT, and no
\* recorded count is negative.
C2_ReviewResultPartition ==
    pc = "post" =>
        /\ \A m \in 1..Len(filtered_pull_request_list) :
             Occurrences(waiting_prs \o complete_prs,
                         filtered_pull_request_list[m].html_url) = 1
        /\ Len(waiting_prs) + Len(complete_prs) = Len(filtered_pull_request_list)
        /\ \A m \in 1..Len(waiting_prs) :
             /\ waiting_prs[m].approve_count >= 0
             /\ waiting_prs[m].approve_count < REVIEW_COMPLETE_LIMIT
        /\ \A m \in 1..Len(complete_prs) :
             complete_prs[m].approve_count >= REVIEW_COMPLETE_LIMIT

C2_Witness ==
    /\ pc = "post"
    /\ Len(waiting_prs) >= 1
    /\ Len(complete_prs) >= 1

\* C3: when the review fetch of a pull request fails, the run still posts the
\* notification of that repository (the pull request counted with zero
\* approvals).
C3_ReviewFailureStillNotifies ==
    \A i \in Repos :
        (Logged("get_approve_count", i) /\ pc = "done") => post_count[i] = 1

\* C4: after a failed listing fetch of one repository, every repository after
\* it in the configuration is still fetched.
C4_ListingFailureSkipsOnlyThatRepo ==
    \A i \in 1..Len(configs) :
        (listed[i] = "failed" /\ pc = "done") =>
            \A k \in (i + 1)..Len(configs) : fetch_count[k] = 1

\* C5: a failed webhook POST is logged, is not retried, does not raise out of
\* send_slack_notification, and main goes on with the next configured
\* repository (or ends normally after the last one).
C5_PostFailureIsLoggedAndRunContinues ==
    \A i \in 1..Len(configs) :
        post_status[i] = "failed" =>
            /\ Logged("send_slack_notification", i)
            /\ post_count[i] = 1
            /\ ~Logged("main", i)
            /\ IF i < Len(configs)
               THEN \/ idx = i + 1 /\ pc = "fetch" /\ fetch_count[i + 1] = 0
                    \/ idx > i /\ fetch_count[i + 1] = 1
               ELSE pc = "done"

C5_Witness ==
    /\ post_status[1] = "failed"
    /\ Len(configs) >= 2
    /\ fetch_count[2] = 1

ReviewersOf(reviews) == {reviews[k].user_id : k \in 1..Len(reviews)}

\* the state of the most recent review event of user u
LatestState(reviews, u) ==
    LET mine == {k \in 1..Len(reviews) : reviews[k].user_id = u}
        last == CHOOSE k \in mine : \A h \in mine : h <= k
    IN  reviews[last].state

\* C6 as stated: the count is the number of reviewers whose most recent review
\* event is APPROVED.
C6_LatestStatePerReviewer ==
    pc = "approve_ret" =>
        approve_count = Cardinality({u \in ReviewersOf(response_json) :
                                        LatestState(response_json, u) = "APPROVED"})

\* C6 as amended: the count is the number of distinct reviewers with at least
\* one APPROVED review event, whatever they submitted later.
C6_AnyApprovalPerReviewer ==
    pc = "approve_ret" =>
        approve_count =
            Cardinality({u \in ReviewersOf(response_json) :
                            \E k \in 1..Len(response_json) :
                               /\ response_json[k].user_id = u
                               /\ response_json[k].state = "APPROVED"})

\* a reviewer approved twice, or approved and then asked for changes
C6_Witness ==
    /\ pc = "approve_ret"
    /\ approve_count = 1
    /\ \E k1, k2 \in 1..Len(response_json) :
         /\ k1 < k2
         /\ response_json[k1].user_id = response_json[k2].user_id
         /\ response_json[k1].state = "APPROVED"

\* an entry without a usable owner name, repository name, target label or
\* webhook URL
EntryBad(e) ==
    \/ Get(e, "owner_name", "") = ""
    \/ Get(e, "repo_name", "") = ""
    \/ Get(e, "target_label", "") = ""
    \/ getenv(Get(e, "webhook_secret_name", "")) \in {"", PyNone}

ConfigBad ==
    \/ ~config_file.exists
    \/ ~config_file.json_ok
    \/ ~config_file.is_list
    \/ \E k \in 1..Len(config_file.entries) : EntryBad(config_file.entries[k])

\* C7: with a configuration error no listing is fetched and nothing is posted,
\* for any entry.
C7_ConfigErrorIsFatal ==
    ConfigBad => \A i \in Repos : fetch_count[i] = 0 /\ post_count[i] = 0

\* a well-formed entry followed by a bad one, after load_configs
C7_Witness ==
    /\ pc = "done"
    /\ Len(config_file.entries) >= 2
    /\ ~EntryBad(config_file.entries[1])
    /\ EntryBad(config_file.entries[2])

IndexOf(text, token) == CHOOSE k \in 1..Len(text) : text[k] = token

WaitingCount(text) == text[IndexOf(text, WaitingHeader) + 1]
WaitingBody(text) ==
    SubSeq(text, IndexOf(text, WaitingHeader) + 3, IndexOf(text, SectionGap) - 1)
CompleteCount(text) == text[IndexOf(text, CompleteHeader) + 1]
CompleteBody(text) == SubSeq(text, IndexOf(text, CompleteHeader) + 3, Len(text))

\* C8: a non-empty listing whose filtered list is empty is still posted, with
\* the placeholder and a count of 0 in both sections; a section is the
\* placeholder exactly when its list is empty, and is never the empty string.
C8_EmptySectionsRenderPlaceholder ==
    /\ (pull_request_list # <<>> /\ filtered_pull_request_list = <<>>) =>
          /\ pc = "post"
          /\ post_count[idx] = 1
          /\ WaitingCount(message) = "0" /\ WaitingBody(message) = <<Nashi>>
          /\ CompleteCount(message) = "0" /\ CompleteBody(message) = <<Nashi>>
    /\ pc = "post" =>
          /\ WaitingBody(message) # <<>>
          /\ CompleteBody(message) # <<>>
          /\ WaitingBody(message) = <<Nashi>> <=> waiting_prs = <<>>
          /\ CompleteBody(message) = <<Nashi>> <=> complete_prs = <<>>
          /\ WaitingCount(message) = IntStr(Len(waiting_prs))
          /\ CompleteCount(message) = IntStr(Len(complete_prs))

C8_Witness ==
    /\ pc = "post"
    /\ pull_request_list # <<>>
    /\ filtered_pull_request_list = <<>>

\* C9: when the listing of a repository holds a pull request with no label (or
\* no url), the run ends without a POST for that repository and without a
\* fetch or a POST for any repository after it.
C9_UnlabelledPullRequestEndsRun ==
    \A i \in 1..Len(configs) :
        listed[i] = "unusable" =>
            /\ pc = "done"
            /\ Logged("main", i)
            /\ post_count[i] = 0
            /\ \A k \in (i + 1)..Len(configs) : fetch_count[k] = 0 /\ post_count[k] = 0

\* an unlabelled pull request beside one that carries the target label, in a
\* repository that is not the last one
C9_Witness ==
    /\ idx < Len(configs)
    /\ listed[idx] = "unusable"
    /\ \E k \in 1..Len(listing_json) : Get(listing_json[k], "labels", <<>>) = <<>>
    /\ \E k \in 1..Len(listing_json) :
         \E n \in 1..Len(Get(listing_json[k], "labels", <<>>)) :
            listing_json[k].labels[n] = LabelObj(configs[idx].target_label)

NoFetchFailed ==
    \A i \in Repos : ~Logged("get_pull_request_list", i) /\ ~Logged("get_approve_count", i)

\* every pull-request object of the current listing passes PullRequest's
\* validation
ListingValid ==
    \A k \in 1..Len(listing_json) :
        /\ ~Unusable(listing_json[k])
        /\ Get(listing_json[k], "draft", PyFalse) # PyNone

\* repository i has been left by main's loop
Finished(i) == idx > i \/ pc = "done"

\* the order of the calls: repositories in configuration order, at most one
\* listing GET and one POST each, no POST for an empty listing and one
\* otherwise, the POST after one review GET for each pull request of the
\* filtered list and none for the others, and before the next listing GET
PipelineOrder ==
    \A i \in 1..Len(configs) :
        /\ fetch_count[i] = IF i < idx \/ (i = idx /\ pc # "fetch") THEN 1 ELSE 0
        /\ post_count[i] <= 1
        /\ Finished(i) =>
              post_count[i] = IF listed[i] \in {"nonempty", "unusable"} THEN 1 ELSE 0
        /\ (i = idx /\ pc \in {"fetch", "review"}) => post_count[i] = 0
        /\ (i = idx /\ pc = "post") =>
              /\ post_count[i] = 1
              /\ \A k \in 1..Len(pull_request_list) :
                    review_count[k] =
                       IF \E m \in 1..Len(filtered_pull_request_list) :
                             filtered_pull_request_list[m] = pull_request_list[k]
                       THEN 1 ELSE 0
        /\ (i < Len(configs) /\ fetch_count[i + 1] = 1) => Finished(i)

====
